---- MODULE Spec2Model ----
(***************************************************************************)
(* State-machine model of the verified-digital-twin-brain backend:         *)
(*   - the agent loop (backend/modules/agent.py) and the chat stream that  *)
(*     consumes its update events (backend/main.py),                       *)
(*   - the hybrid retriever (backend/modules/retrieval.py),                *)
(*   - the graph snapshot builder (backend/modules/graph_context.py).      *)
(*                                                                         *)
(* Numbers: a score is an integer number of hundredths (100 is 1.0); a     *)
(* confidence is an exact rational [num, den] in lowest terms, so that the *)
(* mean of scores and the comparison with 0.7 are exact.                   *)
(***************************************************************************)
EXTENDS Integers, Sequences, FiniteSets, TLC

VARIABLES
    \* ---- agent run (TwinState and the position in the graph), per request
    reqs,              \* the chat requests being served
    pc,                \* next node of the compiled graph: AGENT, TOOLS, TERMINAL (END), FAILED
    messages,          \* TwinState.messages
    confidence_score,  \* TwinState.confidence_score
    citations,         \* TwinState.citations
    tools_local,       \* handle_tools locals while its loop over the tool messages runs
    event,             \* the update event astream has yielded and the stream has not consumed
    \* ---- stream_generator locals, per request
    stream,            \* final_content, citations, confidence_score, sent_metadata, position
    emitted,           \* the NDJSON events yielded to the client, in order
    logged,            \* what log_interaction recorded for the assistant message
    escalations,       \* number of escalations created for the answer
    hist,              \* history of the run (what the TOOLS steps were given)
    \* ---- retrieve_context
    retrieval,         \* last call of retrieve_context: its inputs and its outcome
    \* ---- get_graph_snapshot
    graph              \* graph store content and last call of get_graph_snapshot

vars == <<reqs, pc, messages, confidence_score, citations, tools_local, event,
          stream, emitted, logged, escalations, hist, retrieval, graph>>

agentVars == <<reqs, pc, messages, confidence_score, citations, tools_local, event,
               stream, emitted, logged, escalations, hist>>

-----------------------------------------------------------------------------
(* Bounds of the exploration *)

\* TOOLS steps explored per run (the code itself has no cap)
MaxToolSteps == 2
\* tool calls carried by one assistant message
MaxCalls == 2
\* items in one tool output
MaxItems == 1
\* matches one vector-store query returns
MaxMatches == 2
\* results one rerank call returns
MaxRerank == 2
\* largest top_k asked of retrieve_context
MaxTopK == 3
\* get_graph_snapshot: edges in the store, and the largest caps of a call
MaxStoreEdges == 2
MaxCapNodes == 3
MaxCapEdges == 2
\* _select_seeds: the longest run of stored nodes of one kind
MaxRun == 5
\* get_graph_snapshot on a star: the most 1-hop neighbors the seed has
MaxNeighbors == 4

-----------------------------------------------------------------------------
(* Generic helpers *)

Min(a, b) == IF a < b THEN a ELSE b

Max(a, b) == IF a > b THEN a ELSE b

RECURSIVE GCD(_, _)
GCD(a, b) == IF b = 0 THEN a ELSE GCD(b, a % b)

\* the rational n/d (d > 0, n >= 0) in lowest terms
Rat(n, d) ==
    LET g == GCD(n, d) IN [num |-> n \div g, den |-> d \div g]

RatLess(a, b) == a.num * b.den < b.num * a.den

\* sequences over S of length at most n
SeqUpTo(S, n) == UNION {[1..k -> S] : k \in 0..n}

\* Python's s[k:] and s[:k] for 0 <= k
DropFirst(s, k) == IF k >= Len(s) THEN <<>> ELSE SubSeq(s, k + 1, Len(s))

TakeFirst(s, k) == SubSeq(s, 1, Min(k, Len(s)))

Range(s) == {s[i] : i \in 1..Len(s)}

RECURSIVE SetToSeq(_)
\* a set of integers as a duplicate-free sequence (the order list(set(..)) gives
\* is not specified; one order is fixed here)
SetToSeq(S) ==
    IF S = {} THEN <<>>
    ELSE LET m == CHOOSE x \in S : \A y \in S : x <= y
         IN <<m>> \o SetToSeq(S \ {m})

-----------------------------------------------------------------------------
(* Confidence values *)

\* 1.0 and 0.0 as confidences
ConfOne == Rat(1, 1)

ConfZero == Rat(0, 1)

\* 0.7, the escalation threshold
EscalationThreshold == Rat(7, 10)

\* the state a run starts with
InitialConfidence == ConfOne

\* stream_generator's own confidence_score before any event
StreamInitialConfidence == ConfZero

-----------------------------------------------------------------------------
(* Inputs of the agent loop *)

RetrievalToolName == "search_knowledge_base"

ToolNames == {RetrievalToolName, "other_tool"}

\* text of an assistant message, as a sequence of characters
Texts == SeqUpTo({"a", "b"}, 1)

\* the tool calls of an assistant message, by tool name
CallLists == SeqUpTo(ToolNames, MaxCalls)

SourceIds == {1, 2}

\* An item of a tool output: a dict whose keys may or may not include source_id
\* and score (keys says which are present; is_verified absent reads as FALSE).
Item(keys, sid, score, ver) ==
    [keys |-> keys, source_id |-> sid, score |-> score, is_verified |-> ver]

ItemSet ==
    { Item({"source_id", "score"}, 1, 100, TRUE),
      Item({"source_id", "score"}, 2, 40, FALSE),
      Item({"score"}, 0, 100, FALSE),
      Item({"source_id"}, 2, 0, TRUE) }

\* The content of a ToolMessage: a JSON list as json.dumps writes it, the repr of
\* a Python list (a literal), or text that is neither (an error text, prose).
ToolContents ==
    {[fmt |-> "garbage", items |-> <<>>]}
    \cup {[fmt |-> f, items |-> its] : f \in {"json", "literal"},
                                       its \in SeqUpTo(ItemSet, MaxItems)}

-----------------------------------------------------------------------------
(* Messages and update events *)

HumanMessage == [role |-> "human", content |-> <<>>, tool_calls |-> <<>>, name |-> ""]

AIMessage(content, calls) ==
    [role |-> "ai", content |-> content, tool_calls |-> calls, name |-> ""]

\* A ToolMessage as kept in the message list. Its text is read once, by
\* handle_tools, when it is produced; the list keeps the tool's name only.
ToolMessage(name) ==
    [role |-> "tool", content |-> <<>>, tool_calls |-> <<>>, name |-> name]

\* An update a node returns: the state keys it sets and their values.
Update(keys, msgs, cits, conf) ==
    [keys |-> keys, messages |-> msgs, citations |-> cits, confidence_score |-> conf]

NoEvent == [node |-> "none", update |-> Update({}, <<>>, <<>>, ConfZero)]

UpdateEvent(node, update) == [node |-> node, update |-> update]

\* The events of the streamed response protocol
MetadataEvent(conf, cits) ==
    [type |-> "metadata", confidence_score |-> conf, citations |-> cits,
     content |-> <<>>, escalated |-> FALSE]

ContentEvent(chunk) ==
    [type |-> "content", confidence_score |-> ConfZero, citations |-> <<>>,
     content |-> chunk, escalated |-> FALSE]

DoneEvent(escalated) ==
    [type |-> "done", confidence_score |-> ConfZero, citations |-> <<>>,
     content |-> <<>>, escalated |-> escalated]

NoLog == [written |-> FALSE, content |-> <<>>, citations |-> <<>>,
          confidence_score |-> ConfZero]

-----------------------------------------------------------------------------
(* agent.py: the nodes of the graph *)

\* call_model as it would be if the node returned a whole state with a default
\* confidence instead of the messages alone
call_model_ResetsConfidence(response) ==
    Update({"messages", "confidence_score"}, <<response>>, <<>>, ConfZero)

\* call_model: the update holds the model's response and nothing else
call_model(response) == Update({"messages"}, <<response>>, <<>>, ConfZero)

\* should_continue sending the run back to AGENT instead of ending it
should_continue_NeverEnds(msgs) ==
    IF Len(msgs[Len(msgs)].tool_calls) > 0 THEN "TOOLS" ELSE "AGENT"

\* should_continue ending the run whatever the last message asks for
should_continue_AlwaysEnds(msgs) == "TERMINAL"

\* should_continue: looks at the last message only
should_continue(msgs) ==
    IF Len(msgs[Len(msgs)].tool_calls) > 0 THEN "TOOLS" ELSE "TERMINAL"

\* handle_tools, lines 72-86: the list the text parses to (JSON first, then a
\* Python literal), or nothing when it parses as neither
ParseToolOutput(content) ==
    IF content.fmt \in {"json", "literal"} THEN content.items ELSE <<>>

\* handle_tools, line 101: the raw text holds "is_verified": true. json.dumps
\* writes exactly that for a true flag; the repr of a Python list writes
\* 'is_verified': True, which does not match.
ContainsVerifiedText(content) ==
    /\ content.fmt = "json"
    /\ \E i \in 1..Len(content.items) : content.items[i].is_verified

\* handle_tools locals on entry (lines 58-60)
HandleToolsEntry(stateCitations) ==
    [pos |-> 0, citations |-> stateCitations, total_score |-> 0, score_count |-> 0,
     has_verified |-> FALSE]

ToolsIdle == HandleToolsEntry(<<>>)

RECURSIVE ExtractItems(_, _)
\* handle_tools, lines 87-93: citations and scores of the parsed items
ExtractItems(loc, items) ==
    IF items = <<>> THEN loc
    ELSE LET item == Head(items)
             c == IF "source_id" \in item.keys
                  THEN Append(loc.citations, item.source_id) ELSE loc.citations
             t == IF "score" \in item.keys
                  THEN loc.total_score + item.score ELSE loc.total_score
             n == IF "score" \in item.keys
                  THEN loc.score_count + 1 ELSE loc.score_count
         IN ExtractItems([loc EXCEPT !.citations = c, !.total_score = t,
                                     !.score_count = n], Tail(items))

\* handle_tools, one tool message of result["messages"]: lines 67-95 for it, and
\* its part in the any(..) of line 101
ProcessToolMessage(loc, name, content) ==
    LET ext == IF name = RetrievalToolName
               THEN ExtractItems(loc, ParseToolOutput(content)) ELSE loc
    IN [ext EXCEPT !.pos = loc.pos + 1,
                   !.has_verified = loc.has_verified \/ ContainsVerifiedText(content)]

\* NewConfidence without the verified branch: always the mean
NewConfidence_IgnoresVerified(loc) ==
    IF loc.score_count > 0
    THEN Rat(loc.total_score, 100 * loc.score_count)
    ELSE ConfZero

\* NewConfidence keeping the run's initial value when nothing was scored
NewConfidence_DefaultsToOne(loc) ==
    IF loc.score_count > 0
    THEN IF loc.has_verified THEN ConfOne
         ELSE Rat(loc.total_score, 100 * loc.score_count)
    ELSE ConfOne

\* handle_tools, lines 97-108
NewConfidence(loc) ==
    IF loc.score_count > 0
    THEN IF loc.has_verified THEN ConfOne
         ELSE Rat(loc.total_score, 100 * loc.score_count)
    ELSE ConfZero

\* handle_tools_update returning the citations as collected, without list(set(..))
handle_tools_update_KeepsDuplicates(loc, toolMessages) ==
    Update({"messages", "citations", "confidence_score"}, toolMessages,
           loc.citations, NewConfidence(loc))

\* handle_tools, lines 110-114
handle_tools_update(loc, toolMessages) ==
    Update({"messages", "citations", "confidence_score"}, toolMessages,
           SetToSeq(Range(loc.citations)), NewConfidence(loc))

-----------------------------------------------------------------------------
(* History of a run: what its TOOLS steps were given *)

\* the tool message is a retrieval result, in JSON, with an item that is verified
\* and carries a score (a verified chunk as retrieve_context returns it)
IsVerifiedHit(name, content) ==
    /\ name = RetrievalToolName
    /\ content.fmt = "json"
    /\ \E i \in 1..Len(content.items) :
          content.items[i].is_verified /\ "score" \in content.items[i].keys

\* some item parsed from a retrieval result carries a score
IsScored(name, content) ==
    /\ name = RetrievalToolName
    /\ content.fmt # "garbage"
    /\ \E i \in 1..Len(content.items) : "score" \in content.items[i].keys

\* the source ids carried by the items parsed from a retrieval result
SeenSourceIds(name, content) ==
    IF name = RetrievalToolName
    THEN {it.source_id : it \in {x \in Range(ParseToolOutput(content)) :
                                    "source_id" \in x.keys}}
    ELSE {}

\* the tool message is an output of the retrieval tool that parses neither as
\* JSON nor as a literal (the error text of a failed call, for one)
IsUnparsed(name, content) ==
    name = RetrievalToolName /\ content.fmt = "garbage"

\* some item parsed from a retrieval result has is_verified true
HasVerifiedItem(name, content) ==
    /\ name = RetrievalToolName
    /\ \E it \in Range(ParseToolOutput(content)) : it.is_verified

\* handle_tools run on the tool messages of one step alone: its locals when it
\* starts from a state without citations, the citations left out
OwnEntry == HandleToolsEntry(<<>>)

OwnToolMessage(own, name, content) ==
    [ProcessToolMessage(own, name, content) EXCEPT !.citations = <<>>]

\* the mean of the scores of the items of one step, 0.0 when none has a score
MeanScore(own) ==
    IF own.score_count > 0 THEN Rat(own.total_score, 100 * own.score_count)
    ELSE ConfZero

HistInit ==
    [toolSteps |-> 0,
     curHit |-> FALSE, lastHit |-> FALSE, everHit |-> FALSE,
     curScored |-> FALSE, lastScored |-> FALSE,
     curUnparsed |-> FALSE, lastUnparsed |-> FALSE,
     seen |-> {}, overlap |-> FALSE,
     own |-> OwnEntry, lastOwn |-> ConfZero, replaced |-> FALSE,
     curVerifiedItem |-> FALSE, lastVerifiedItem |-> FALSE, lastMean |-> ConfZero]

HistToolMessage(h, name, content) ==
    [h EXCEPT !.curHit = h.curHit \/ IsVerifiedHit(name, content),
              !.curScored = h.curScored \/ IsScored(name, content),
              !.curUnparsed = h.curUnparsed \/ IsUnparsed(name, content),
              !.seen = h.seen \cup SeenSourceIds(name, content),
              !.overlap = h.overlap \/ SeenSourceIds(name, content) \cap h.seen # {},
              !.own = OwnToolMessage(h.own, name, content),
              !.curVerifiedItem = h.curVerifiedItem \/ HasVerifiedItem(name, content)]

HistToolsDone(h) ==
    [h EXCEPT !.toolSteps = h.toolSteps + 1,
              !.lastHit = h.curHit, !.everHit = h.everHit \/ h.curHit,
              !.lastScored = h.curScored,
              !.lastUnparsed = h.curUnparsed,
              !.curHit = FALSE, !.curScored = FALSE, !.curUnparsed = FALSE,
              !.lastOwn = NewConfidence(h.own),
              !.replaced = h.replaced
                           \/ (h.toolSteps > 0 /\ NewConfidence(h.own) # h.lastOwn),
              !.lastVerifiedItem = h.curVerifiedItem,
              !.lastMean = MeanScore(h.own),
              !.own = OwnEntry, !.curVerifiedItem = FALSE]

-----------------------------------------------------------------------------
(* main.py: stream_generator *)

StreamInit ==
    [final_content |-> <<>>, citations |-> <<>>,
     confidence_score |-> StreamInitialConfidence, sent_metadata |-> FALSE,
     at |-> "loop"]

\* lines 117-130: a "tools" event sets citations and confidence, and the first
\* one sends the metadata
StreamOnTools(st, ev) ==
    IF ev.node # "tools" THEN [st |-> st, out |-> <<>>]
    ELSE LET c == IF "citations" \in ev.update.keys
                  THEN ev.update.citations ELSE st.citations
             f == IF "confidence_score" \in ev.update.keys
                  THEN ev.update.confidence_score ELSE st.confidence_score
             st2 == [st EXCEPT !.citations = c, !.confidence_score = f,
                               !.sent_metadata = TRUE]
         IN [st |-> st2,
             out |-> IF st.sent_metadata THEN <<>> ELSE <<MetadataEvent(f, c)>>]

\* lines 132-143: an "agent" event yields the part of the message text beyond the
\* length already sent
StreamOnAgent(st, ev) ==
    IF ev.node # "agent" THEN [st |-> st, out |-> <<>>]
    ELSE LET msg == ev.update.messages[Len(ev.update.messages)]
             chunk == DropFirst(msg.content, Len(st.final_content))
         IN IF msg.role = "ai" /\ msg.content # <<>> /\ chunk # <<>>
            THEN [st |-> [st EXCEPT !.final_content = st.final_content \o chunk],
                  out |-> <<ContentEvent(chunk)>>]
            ELSE [st |-> st, out |-> <<>>]

\* line 165: the escalation check
ShouldEscalate(conf) == RatLess(conf, EscalationThreshold)

\* lines 145-170: what the generator yields once the run is over
StreamFinishOut(st) ==
    (IF st.sent_metadata THEN <<>>
     ELSE <<MetadataEvent(st.confidence_score, st.citations)>>)
    \o <<DoneEvent(ShouldEscalate(st.confidence_score))>>

-----------------------------------------------------------------------------
(* Actions of the agent run and of its stream *)

LastMessage(r) == messages[r][Len(messages[r])]

\* ApplyUpdate on a state whose citations are one list shared by all requests
ApplyUpdate_SharedCitations(r, u) ==
    /\ messages' = [messages EXCEPT
          ![r] = IF "messages" \in u.keys THEN @ \o u.messages ELSE @]
    /\ citations' = IF "citations" \in u.keys
                    THEN [q \in reqs |-> u.citations] ELSE citations
    /\ confidence_score' = [confidence_score EXCEPT
          ![r] = IF "confidence_score" \in u.keys THEN u.confidence_score ELSE @]

\* ApplyUpdate combining the confidence of an update with the one of the state:
\* the lower of the two is kept
ApplyUpdate_KeepsLowest(r, u) ==
    /\ messages' = [messages EXCEPT
          ![r] = IF "messages" \in u.keys THEN @ \o u.messages ELSE @]
    /\ citations' = [citations EXCEPT
          ![r] = IF "citations" \in u.keys THEN u.citations ELSE @]
    /\ confidence_score' = [confidence_score EXCEPT
          ![r] = IF "confidence_score" \in u.keys /\ RatLess(u.confidence_score, @)
                 THEN u.confidence_score ELSE @]

\* the state after a node's update is merged into it
ApplyUpdate(r, u) ==
    /\ messages' = [messages EXCEPT
          ![r] = IF "messages" \in u.keys THEN @ \o u.messages ELSE @]
    /\ citations' = [citations EXCEPT
          ![r] = IF "citations" \in u.keys THEN u.citations ELSE @]
    /\ confidence_score' = [confidence_score EXCEPT
          ![r] = IF "confidence_score" \in u.keys THEN u.confidence_score ELSE @]

\* AGENT: the model answers with some text and some tool calls; the answers
\* explored are those of texts and callLists, in runs of at most maxSteps TOOLS
\* steps
CallModelFrom(r, texts, callLists, maxSteps) ==
    /\ pc[r] = "AGENT" /\ event[r] = NoEvent /\ stream[r].at = "loop"
    /\ \E content \in texts, calls \in callLists :
          /\ calls # <<>> => hist[r].toolSteps < maxSteps
          /\ LET u == call_model(AIMessage(content, calls))
             IN /\ ApplyUpdate(r, u)
                /\ event' = [event EXCEPT ![r] = UpdateEvent("agent", u)]
                /\ pc' = [pc EXCEPT ![r] = should_continue(messages'[r])]
    /\ UNCHANGED <<reqs, tools_local, stream, emitted, logged, escalations, hist,
                   retrieval, graph>>

CallModel(r) == CallModelFrom(r, Texts, CallLists, MaxToolSteps)

\* AGENT: the model call raises; the exception ends the run and the stream
CallModelFails(r) ==
    /\ pc[r] = "AGENT" /\ event[r] = NoEvent /\ stream[r].at = "loop"
    /\ pc' = [pc EXCEPT ![r] = "FAILED"]
    /\ stream' = [stream EXCEPT ![r].at = "aborted"]
    /\ UNCHANGED <<reqs, messages, confidence_score, citations, tools_local, event,
                   emitted, logged, escalations, hist, retrieval, graph>>

\* TOOLS: handle_tools takes the next tool message of the step; with the last one
\* it returns its update and the graph goes back to AGENT; the tool outputs
\* explored are those of contents
HandleToolsFrom(r, contents) ==
    /\ pc[r] = "TOOLS" /\ event[r] = NoEvent
    /\ LET calls == LastMessage(r).tool_calls
           loc == IF tools_local[r].pos = 0
                  THEN HandleToolsEntry(citations[r]) ELSE tools_local[r]
           name == calls[loc.pos + 1]
       IN \E content \in contents :
            LET loc2 == ProcessToolMessage(loc, name, content)
                h2 == HistToolMessage(hist[r], name, content)
            IN IF loc2.pos < Len(calls)
               THEN /\ tools_local' = [tools_local EXCEPT ![r] = loc2]
                    /\ hist' = [hist EXCEPT ![r] = h2]
                    /\ UNCHANGED <<messages, citations, confidence_score, event, pc>>
               ELSE LET u == handle_tools_update(loc2,
                                 [i \in 1..Len(calls) |-> ToolMessage(calls[i])])
                    IN /\ ApplyUpdate(r, u)
                       /\ event' = [event EXCEPT ![r] = UpdateEvent("tools", u)]
                       /\ pc' = [pc EXCEPT ![r] = "AGENT"]
                       /\ tools_local' = [tools_local EXCEPT ![r] = ToolsIdle]
                       /\ hist' = [hist EXCEPT ![r] = HistToolsDone(h2)]
    /\ UNCHANGED <<reqs, stream, emitted, logged, escalations, retrieval, graph>>

HandleTools(r) == HandleToolsFrom(r, ToolContents)

\* the stream takes the update event the graph has yielded
StreamOnEvent(r) ==
    /\ event[r] # NoEvent /\ stream[r].at = "loop"
    /\ LET a == StreamOnTools(stream[r], event[r])
           b == StreamOnAgent(a.st, event[r])
       IN /\ stream' = [stream EXCEPT ![r] = b.st]
          /\ emitted' = [emitted EXCEPT ![r] = @ \o a.out \o b.out]
    /\ event' = [event EXCEPT ![r] = NoEvent]
    /\ UNCHANGED <<reqs, pc, messages, confidence_score, citations, tools_local,
                   logged, escalations, hist, retrieval, graph>>

\* the run is over: metadata if none was sent, log, escalation check, done
StreamFinish(r) ==
    /\ pc[r] = "TERMINAL" /\ event[r] = NoEvent /\ stream[r].at = "loop"
    /\ emitted' = [emitted EXCEPT ![r] = @ \o StreamFinishOut(stream[r])]
    /\ logged' = [logged EXCEPT ![r] =
          [written |-> TRUE, content |-> stream[r].final_content,
           citations |-> stream[r].citations,
           confidence_score |-> stream[r].confidence_score]]
    /\ escalations' = [escalations EXCEPT
          ![r] = IF ShouldEscalate(stream[r].confidence_score) THEN @ + 1 ELSE @]
    /\ stream' = [stream EXCEPT ![r].at = "done"]
    /\ UNCHANGED <<reqs, pc, messages, confidence_score, citations, tools_local,
                   event, hist, retrieval, graph>>

-----------------------------------------------------------------------------
(* retrieval.py: retrieve_context *)

\* the thresholds of lines 47 and 58, in hundredths
VerifiedThreshold == 25

GeneralThreshold == 30

\* VerifiedChunk keeping the similarity of the match as the score
VerifiedChunk_KeepsSimilarity(match) ==
    [text |-> match.text, score |-> match.score,
     source_id |-> IF match.has_source_id THEN match.source_id
                   ELSE "verified_memory",
     is_verified |-> TRUE]

\* lines 48-53: the chunk made of a verified match
VerifiedChunk(match) ==
    [text |-> match.text, score |-> 100,
     source_id |-> IF match.has_source_id THEN match.source_id
                   ELSE "verified_memory",
     is_verified |-> TRUE]

\* lines 59-64: the chunk made of a general match
GeneralChunk(match) ==
    [text |-> match.text, score |-> match.score,
     source_id |-> IF match.has_source_id THEN match.source_id ELSE "unknown",
     is_verified |-> FALSE]

RECURSIVE FilterMatches(_, _)
\* the matches whose score is above the threshold, in their order
FilterMatches(matches, threshold) ==
    IF matches = <<>> THEN <<>>
    ELSE (IF Head(matches).score > threshold THEN <<Head(matches)>> ELSE <<>>)
         \o FilterMatches(Tail(matches), threshold)

\* lines 46-53
VerifiedContexts(verified_matches) ==
    LET passing == FilterMatches(verified_matches, VerifiedThreshold)
    IN [i \in 1..Len(passing) |-> VerifiedChunk(passing[i])]

\* lines 56-64
RawGeneralChunks(general_matches) ==
    LET passing == FilterMatches(general_matches, GeneralThreshold)
    IN [i \in 1..Len(passing) |-> GeneralChunk(passing[i])]

RECURSIVE RerankRebuild(_, _, _)
\* lines 82-87: the loop over rerank_res.results. Each result names a chunk by
\* its index (0-based) and overwrites that chunk's score in place; an index
\* outside the list raises. Gives the chunks as the loop left them, the
\* indices appended so far and whether it raised.
RerankRebuild(chunks, results, picked) ==
    IF results = <<>> THEN [chunks |-> chunks, picked |-> picked, raised |-> FALSE]
    ELSE LET res == Head(results)
         IN IF res.index >= Len(chunks)
            THEN [chunks |-> chunks, picked |-> picked, raised |-> TRUE]
            ELSE RerankRebuild(
                    [chunks EXCEPT ![res.index + 1].score = res.relevance_score],
                    Tail(results), Append(picked, res.index + 1))

\* lines 66-95: what the rerank step appends to contexts. rerank is
\* [client, raises, results]: whether a Cohere client is configured, whether
\* its rerank call raises, and the results it returns otherwise.
RerankStep(raw_general_chunks, rerank, top_k) ==
    IF rerank.client /\ raw_general_chunks # <<>>
    THEN IF rerank.raises
         THEN TakeFirst(raw_general_chunks, top_k)
         ELSE LET rb == RerankRebuild(raw_general_chunks, rerank.results, <<>>)
              IN IF rb.raised
                 THEN TakeFirst(rb.chunks, top_k)
                 ELSE [i \in 1..Len(rb.picked) |-> rb.chunks[rb.picked[i]]]
    ELSE TakeFirst(raw_general_chunks, top_k)

\* whether the rerank step went through its except branch (lines 90-92)
RerankFailed(raw_general_chunks, rerank) ==
    /\ rerank.client /\ raw_general_chunks # <<>>
    /\ \/ rerank.raises
       \/ RerankRebuild(raw_general_chunks, rerank.results, <<>>).raised

\* FinalContexts without the cut
FinalContexts_Uncut(contexts, top_k) == contexts

\* line 99: final_contexts = contexts[:top_k]
FinalContexts(contexts, top_k) == TakeFirst(contexts, top_k)

\* retrieve_context with an except branch around its calls that returns the
\* empty list
OnRetrievalFailure_ReturnsEmpty(fails) == [raised |-> FALSE, contexts |-> <<>>]

\* lines 16-41: get_embedding and the two index.query calls are not guarded, so
\* an exception of one of them leaves retrieve_context without a return value
OnRetrievalFailure(fails) == [raised |-> TRUE, contexts |-> <<>>]

\* retrieve_context: fails names the call that raises, if any ("embedding",
\* "verified_query", "general_query", or "none"); an exception of these
\* propagates to the caller
retrieve_context(fails, verified_matches, general_matches, rerank, top_k) ==
    IF fails # "none" THEN OnRetrievalFailure(fails)
    ELSE LET contexts == VerifiedContexts(verified_matches)
                         \o RerankStep(RawGeneralChunks(general_matches), rerank, top_k)
         IN [raised |-> FALSE, contexts |-> FinalContexts(contexts, top_k)]

-----------------------------------------------------------------------------
(* Inputs and action of retrieve_context *)

Match(score, text, has_sid, sid) ==
    [score |-> score, text |-> text, has_source_id |-> has_sid, source_id |-> sid]

\* what the vector store may hold for the twin: scores on both sides of each
\* threshold, with and without a source_id in the metadata
MatchSet ==
    { Match(90, "t1", TRUE, "s1"),
      Match(31, "t2", FALSE, ""),
      Match(30, "t3", TRUE, "s2"),
      Match(25, "t4", TRUE, "s1") }

\* a query result: matches in descending order of similarity
MatchLists ==
    {m \in SeqUpTo(MatchSet, MaxMatches) :
        \A i \in 1..(Len(m) - 1) : m[i].score >= m[i + 1].score}

\* a rerank result: the 0-based index of a document and its relevance
RerankResultSet ==
    [index : 0..MaxMatches, relevance_score : {5}]

NoRerank == [client |-> FALSE, raises |-> FALSE, results |-> <<>>]

RerankChoices ==
    {NoRerank, [client |-> TRUE, raises |-> TRUE, results |-> <<>>]}
    \cup {[client |-> TRUE, raises |-> FALSE, results |-> rs] :
             rs \in SeqUpTo(RerankResultSet, MaxRerank)}

RetrievalFailures == {"none", "embedding", "verified_query", "general_query"}

\* the rerank outcomes a call with these general matches and this top_k can
\* meet: the reranker is asked only when there are chunks, and returns at most
\* top_n = top_k results
RerankChoicesFor(gm, top_k) ==
    IF RawGeneralChunks(gm) = <<>> THEN {r \in RerankChoices : r.results = <<>> /\ ~r.raises}
    ELSE {r \in RerankChoices : Len(r.results) <= top_k}

\* the inputs of one call: what its collaborators will answer
RetrievalInput(fails, vm, gm, rerank, top_k) ==
    [called |-> FALSE, fails |-> fails, verified_matches |-> vm,
     general_matches |-> gm, rerank |-> rerank, top_k |-> top_k,
     raised |-> FALSE, contexts |-> <<>>]

\* one call of retrieve_context with the inputs drawn
RetrieveContext ==
    /\ ~retrieval.called
    /\ LET res == retrieve_context(retrieval.fails, retrieval.verified_matches,
                                   retrieval.general_matches, retrieval.rerank,
                                   retrieval.top_k)
       IN retrieval' = [retrieval EXCEPT !.called = TRUE, !.raised = res.raised,
                                         !.contexts = res.contexts]
    /\ UNCHANGED <<agentVars, graph>>

-----------------------------------------------------------------------------
(* graph_context.py: the graph store and the text of names and queries *)

\* caps of the snapshot (graph_context.py, lines 17-19)
MAX_SEED_NODES == 8
MAX_NODES == 12
MAX_EDGES == 24
\* limit of the candidate fetch of _select_seeds (line 193)
SeedFetchLimit == 100
\* number of edges rendered in the context text (line 330)
MaxEdgeLines == 10

\* texts are sequences of characters
Lower(ch) ==
    CASE ch = "C" -> "c"
      [] ch = "A" -> "a"
      [] ch = "T" -> "t"
      [] OTHER -> ch

\* str.lower()
LowerStr(s) == [i \in 1..Len(s) |-> Lower(s[i])]

\* the `in` operator on strings
IsSubstring(t, s) ==
    \E i \in 0..(Len(s) - Len(t)) : SubSeq(s, i + 1, i + Len(t)) = t

\* str.split(): the maximal runs of characters other than the blank
RECURSIVE SplitFrom(_, _, _)
SplitFrom(s, cur, acc) ==
    IF s = <<>>
    THEN IF cur = <<>> THEN acc ELSE Append(acc, cur)
    ELSE IF Head(s) = " "
         THEN SplitFrom(Tail(s), <<>>, IF cur = <<>> THEN acc ELSE Append(acc, cur))
         ELSE SplitFrom(Tail(s), Append(cur, Head(s)), acc)

Split(s) == SplitFrom(s, <<>>, <<>>)

\* a row of the nodes table; updated_at and created_at are 0 when absent, and
\* has_id is FALSE for a malformed row that has no 'id' key
Node(id, twin, name, description, updated_at, created_at) ==
    [has_id |-> TRUE, id |-> id, twin_id |-> twin, name |-> name, description |-> description,
     updated_at |-> updated_at, created_at |-> created_at]

\* a row of the edges table
Edge(id, twin, from, to) ==
    [has_id |-> TRUE, id |-> id, twin_id |-> twin, from_node_id |-> from, to_node_id |-> to]

Ids(rows) == [i \in 1..Len(rows) |-> rows[i].id]

RECURSIVE SelectRows(_, _, _)
SelectRows(rows, twin, ids) ==
    IF rows = <<>> THEN <<>>
    ELSE IF Head(rows).twin_id = twin /\ Head(rows).id \in ids
         THEN <<Head(rows)>> \o SelectRows(Tail(rows), twin, ids)
         ELSE SelectRows(Tail(rows), twin, ids)

\* rpc get_nodes_system(t_id, limit_val): the rows of the twin, in the order
\* of the store, at most limit_val of them
get_nodes_system(store, t_id, limit_val) ==
    TakeFirst(SelectRows(store.nodes, t_id, {n.id : n \in Range(store.nodes)}),
              limit_val)

\* the read of the edges table without .eq("twin_id", twin_id)
EdgesOfTwin_AllTwins(store, twin_id) == store.edges

\* table("edges").select("*").eq("twin_id", twin_id)
EdgesOfTwin(store, twin_id) ==
    SelectRows(store.edges, twin_id, {e.id : e \in Range(store.edges)})

\* table("nodes").select("*").eq("twin_id", twin_id).in_("id", ids)
NodesOfTwinIn(store, twin_id, ids) ==
    SelectRows(SelectSeq(store.nodes, LAMBDA n : n.has_id), twin_id, ids)

-----------------------------------------------------------------------------
(* graph_context.py: the snapshot builder *)

\* SeedScore comparing the terms with the name and the description as written,
\* without lower()
RECURSIVE SeedScore_CaseSensitive(_, _)
SeedScore_CaseSensitive(node, search_terms) ==
    IF search_terms = <<>> THEN 0
    ELSE (IF IsSubstring(Head(search_terms), node.name) THEN 3 ELSE 0)
         + (IF IsSubstring(Head(search_terms), node.description) THEN 1 ELSE 0)
         + SeedScore_CaseSensitive(node, Tail(search_terms))

\* _select_seeds, lines 198-213: the score of one candidate
RECURSIVE SeedScore(_, _)
SeedScore(node, search_terms) ==
    IF search_terms = <<>> THEN 0
    ELSE LET term_lower == LowerStr(Head(search_terms))
         IN (IF IsSubstring(term_lower, LowerStr(node.name)) THEN 3 ELSE 0)
            + (IF IsSubstring(term_lower, LowerStr(node.description)) THEN 1 ELSE 0)
            + SeedScore(node, Tail(search_terms))

\* comparison of two key tuples of the same length
RECURSIVE TupleGreater(_, _)
TupleGreater(a, b) ==
    IF a = <<>> THEN FALSE
    ELSE \/ Head(a) > Head(b)
         \/ Head(a) = Head(b) /\ TupleGreater(Tail(a), Tail(b))

\* sort(key, reverse=True) on (key, row) pairs: descending by key, rows of equal
\* keys stay in their input order
RECURSIVE InsertDesc(_, _)
InsertDesc(sorted, x) ==
    IF sorted = <<>> THEN <<x>>
    ELSE IF TupleGreater(x.key, Head(sorted).key)
         THEN <<x>> \o sorted
         ELSE <<Head(sorted)>> \o InsertDesc(Tail(sorted), x)

RECURSIVE SortDesc(_, _)
SortDesc(pairs, acc) ==
    IF pairs = <<>> THEN acc
    ELSE SortDesc(Tail(pairs), InsertDesc(acc, Head(pairs)))

Rows(pairs) == [i \in 1..Len(pairs) |-> pairs[i].row]

\* _select_seeds
_select_seeds(store, twin_id, query, fails) ==
    IF query = <<>> THEN <<>>
    ELSE LET keywords == SelectSeq(Split(query), LAMBDA w : Len(w) > 2)
             search_terms == TakeFirst(keywords, 3)
             nodes == get_nodes_system(store, twin_id, SeedFetchLimit)
             scored_nodes == SelectSeq(nodes,
                                 LAMBDA n : SeedScore(n, search_terms) > 0)
             pairs == [i \in 1..Len(scored_nodes) |->
                          [key |-> <<SeedScore(scored_nodes[i], search_terms)>>,
                           row |-> scored_nodes[i]]]
         IN IF keywords = <<>> THEN <<>>
            ELSE IF fails = "seeds" THEN <<>>
            ELSE TakeFirst(Rows(SortDesc(pairs, <<>>)), MAX_SEED_NODES)

\* a read of the graph store: the table or rpc read and the twin it is
\* filtered by
Read(what, twin_id) == [what |-> what, twin_id |-> twin_id]

\* _select_seeds, lines 176-194: the candidate fetch is issued once the query
\* has a keyword
SeedReads(twin_id, query) ==
    IF query = <<>> \/ SelectSeq(Split(query), LAMBDA w : Len(w) > 2) = <<>>
    THEN <<>>
    ELSE <<Read("get_nodes_system", twin_id)>>

\* _get_all_nodes with the default limit of its signature instead of the
\* limit it is given
_get_all_nodes_DefaultLimit(store, twin_id, limit, fails) ==
    IF fails = "fallback" THEN <<>>
    ELSE get_nodes_system(store, twin_id, 20)

\* _get_all_nodes
_get_all_nodes(store, twin_id, limit, fails) ==
    IF fails = "fallback" THEN <<>>
    ELSE get_nodes_system(store, twin_id, limit)

\* _expand_one_hop: the neighbor rows and the connected edges
_expand_one_hop(store, twin_id, node_ids, fails) ==
    LET ids == Range(node_ids)
        edges == EdgesOfTwin(store, twin_id)
        connected_edges ==
            SelectSeq(edges, LAMBDA e : e.from_node_id \in ids \/ e.to_node_id \in ids)
        neighbor_ids ==
            {e.to_node_id : e \in {x \in Range(edges) :
                                     x.from_node_id \in ids /\ x.to_node_id \notin ids}}
            \cup
            {e.from_node_id : e \in {x \in Range(edges) :
                                       /\ x.from_node_id \notin ids
                                       /\ x.to_node_id \in ids}}
    IN IF \/ node_ids = <<>>
          \/ fails = "edges"
          \/ fails = "neighbors" /\ neighbor_ids # {}
       THEN [neighbor_nodes |-> <<>>, connected_edges |-> <<>>,
             reads |-> IF node_ids = <<>> THEN <<>>
                       ELSE IF fails = "edges" THEN <<Read("edges", twin_id)>>
                       ELSE <<Read("edges", twin_id), Read("nodes", twin_id)>>]
       ELSE [neighbor_nodes |-> NodesOfTwinIn(store, twin_id, neighbor_ids),
             connected_edges |-> connected_edges,
             reads |-> IF neighbor_ids = {} THEN <<Read("edges", twin_id)>>
                       ELSE <<Read("edges", twin_id), Read("nodes", twin_id)>>]

\* _rank_nodes: sorted(nodes, key = (not is_seed, updated), reverse = True)
_rank_nodes(nodes, seed_ids) ==
    LET seed_set == Range(seed_ids)
        NotSeed(n) == IF n.id \in seed_set THEN 0 ELSE 1
        Updated(n) == IF n.updated_at # 0 THEN n.updated_at ELSE n.created_at
        pairs == [i \in 1..Len(nodes) |->
                     [key |-> <<NotSeed(nodes[i]), Updated(nodes[i])>>,
                      row |-> nodes[i]]]
    IN Rows(SortDesc(pairs, <<>>))

EmptySnapshot ==
    [context_text |-> <<>>, nodes |-> <<>>, edges |-> <<>>,
     node_count |-> 0, edge_count |-> 0, error |-> FALSE]

\* get_graph_snapshot, lines 163-171: the Snapshot of the except branch
ErrorSnapshot == [EmptySnapshot EXCEPT !.error = TRUE]

\* _format_snapshot, lines 329 and 346-347: n['id'] and e['id'] raise KeyError
\* on a row without id
FormatRaises(nodes, edges) ==
    /\ nodes # <<>>
    /\ \/ \E i \in 1..Len(nodes) : ~nodes[i].has_id
       \/ \E i \in 1..Len(edges) : ~edges[i].has_id

\* IsRendered asking for a name only
IsRendered_NameOnly(n) == n.name # <<>>

\* _format_snapshot, line 315: a node without name or without description gets
\* no line
IsRendered(n) == n.name # <<>> /\ n.description # <<>>

\* _format_snapshot
_format_snapshot(nodes, edges) ==
    IF nodes = <<>> THEN EmptySnapshot
    ELSE LET rendered == SelectSeq(nodes, IsRendered)
             node_lines == Ids(rendered)
             edge_lines == Ids(TakeFirst(edges, MaxEdgeLines))
         IN [context_text |->
                 IF node_lines = <<>> THEN <<>>
                 ELSE <<"MEMORIZED KNOWLEDGE">> \o node_lines
                      \o (IF edge_lines = <<>> THEN <<>>
                          ELSE <<"KNOWN RELATIONSHIPS">> \o edge_lines),
             nodes |-> [i \in 1..Len(nodes) |-> [id |-> nodes[i].id,
                                                 name |-> nodes[i].name]],
             edges |-> [i \in 1..Len(edges) |-> [id |-> edges[i].id]],
             node_count |-> Len(nodes),
             edge_count |-> Len(edges),
             error |-> FALSE]

\* all_nodes[node['id']] = node on the insertion-ordered dict all_nodes
DictSet(all_nodes, node) ==
    IF \E i \in 1..Len(all_nodes) : all_nodes[i].id = node.id
    THEN [i \in 1..Len(all_nodes) |->
              IF all_nodes[i].id = node.id THEN node ELSE all_nodes[i]]
    ELSE Append(all_nodes, node)

\* lines 132-135: the neighbors join the node set while it is below max_nodes
RECURSIVE AddNeighbors(_, _, _)
AddNeighbors(all_nodes, neighbor_nodes, max_nodes) ==
    IF neighbor_nodes = <<>> THEN all_nodes
    ELSE AddNeighbors(IF Len(all_nodes) < max_nodes
                      THEN DictSet(all_nodes, Head(neighbor_nodes))
                      ELSE all_nodes,
                      Tail(neighbor_nodes), max_nodes)

\* lines 142-144: the nodes of the second hop join it unless already there
RECURSIVE AddHopTwo(_, _, _)
AddHopTwo(all_nodes, hop2_nodes, max_nodes) ==
    IF hop2_nodes = <<>> THEN all_nodes
    ELSE AddHopTwo(IF /\ Len(all_nodes) < max_nodes
                      /\ Head(hop2_nodes).id \notin Range(Ids(all_nodes))
                   THEN DictSet(all_nodes, Head(hop2_nodes))
                   ELSE all_nodes,
                   Tail(hop2_nodes), max_nodes)

\* HopTwoSources expanding from every new neighbor
HopTwoSources_All(new_neighbor_ids) == new_neighbor_ids

\* line 141: the second hop starts from new_neighbor_ids[:3]
HopTwoSources(new_neighbor_ids) == TakeFirst(new_neighbor_ids, 3)

\* line 154: the filtered edges, cut at max_edges
CapEdges(edges, max_edges) == TakeFirst(edges, max_edges)

\* CapNodes without the cut
CapNodes_KeepsAll(ranked_nodes, max_nodes) == ranked_nodes

\* line 159: the ranked nodes, cut at max_nodes
CapNodes(ranked_nodes, max_nodes) == TakeFirst(ranked_nodes, max_nodes)

\* get_graph_snapshot with the except branch handing the exception on
OnException_Propagates(body) == body

\* get_graph_snapshot, lines 161-171: an exception of the body is caught and the
\* error Snapshot is returned
OnException(body) ==
    IF body.raised
    THEN [raised |-> FALSE, snapshot |-> ErrorSnapshot, reads |-> body.reads]
    ELSE body

\* get_graph_snapshot, lines 116-159: the body of the try, with the Snapshot it
\* returns, whether it raises instead, and the store reads it issues
graph_snapshot_body(store, twin_id, query, max_nodes, max_edges, fails) ==
    LET seed_nodes == _select_seeds(store, twin_id, query, fails)
        seed_ids == Ids(seed_nodes)
        hop1 == _expand_one_hop(store, twin_id, seed_ids, fails)
        neighbor_nodes == hop1.neighbor_nodes
        all_nodes1 == AddNeighbors(seed_nodes, neighbor_nodes, max_nodes)
        new_neighbor_ids ==
            Ids(SelectSeq(neighbor_nodes, LAMBDA n : n.id \notin Range(seed_ids)))
        takes_hop2 == /\ Len(seed_nodes) < 3
                      /\ Len(all_nodes1) < max_nodes
                      /\ new_neighbor_ids # <<>>
        hop2 == _expand_one_hop(store, twin_id, HopTwoSources(new_neighbor_ids), fails)
        all_nodes == IF takes_hop2
                     THEN AddHopTwo(all_nodes1, hop2.neighbor_nodes, max_nodes)
                     ELSE all_nodes1
        edges == IF takes_hop2
                 THEN hop1.connected_edges \o hop2.connected_edges
                 ELSE hop1.connected_edges
        final_node_ids == Range(Ids(all_nodes))
        final_edges ==
            CapEdges(SelectSeq(edges, LAMBDA e : /\ e.from_node_id \in final_node_ids
                                                 /\ e.to_node_id \in final_node_ids),
                     max_edges)
        ranked_nodes == _rank_nodes(all_nodes, seed_ids)
        fallback_nodes == _get_all_nodes(store, twin_id, max_nodes, fails)
    IN IF \E i \in 1..Len(seed_nodes) : ~seed_nodes[i].has_id
       THEN \* line 118: n['id'] raises KeyError
            [raised |-> TRUE, snapshot |-> EmptySnapshot,
             reads |-> SeedReads(twin_id, query)]
       ELSE IF seed_nodes = <<>>
       THEN [raised |-> FormatRaises(fallback_nodes, <<>>),
             snapshot |-> _format_snapshot(fallback_nodes, <<>>),
             reads |-> SeedReads(twin_id, query)
                       \o <<Read("get_nodes_system", twin_id)>>]
       ELSE [raised |-> FormatRaises(CapNodes(ranked_nodes, max_nodes), final_edges),
             snapshot |-> _format_snapshot(CapNodes(ranked_nodes, max_nodes),
                                           final_edges),
             reads |-> SeedReads(twin_id, query) \o hop1.reads
                       \o (IF takes_hop2 THEN hop2.reads ELSE <<>>)]

\* get_graph_snapshot: the Snapshot it returns, whether it raises, and the
\* store reads it issues
graph_snapshot_call(store, twin_id, query, max_nodes, max_edges, fails) ==
    OnException(graph_snapshot_body(store, twin_id, query, max_nodes, max_edges,
                                    fails))

\* get_graph_snapshot
get_graph_snapshot(store, twin_id, query, max_nodes, max_edges, fails) ==
    graph_snapshot_call(store, twin_id, query, max_nodes, max_edges, fails).snapshot

-----------------------------------------------------------------------------
(* graph_context.py: the stores, queries and caps the builder is called with *)

TwinA == "A"
TwinB == "B"

NodeIds == <<"n1", "n2", "n3">>
\* an id no row of the nodes table has
DanglingId == "n9"

\* name, description, updated_at, created_at of a stored node
NodeKinds ==
    { [name |-> <<"c", "a", "t">>, description |-> <<>>,
       updated_at |-> 1, created_at |-> 1],
      [name |-> <<"C", "a", "t">>, description |-> <<"x">>,
       updated_at |-> 2, created_at |-> 1],
      [name |-> <<"d">>, description |-> <<"c", "a", "t">>,
       updated_at |-> 0, created_at |-> 2],
      [name |-> <<"d">>, description |-> <<>>,
       updated_at |-> 1, created_at |-> 1] }

Absent == [name |-> <<>>, description |-> <<>>, updated_at |-> 0, created_at |-> 0]

\* the rows of twin A: one per id that is given a kind, in the order of NodeIds
RECURSIVE StoredNodes(_, _)
StoredNodes(ids, kinds) ==
    IF ids = <<>> THEN <<>>
    ELSE (IF Head(kinds) = Absent THEN <<>>
          ELSE <<Node(Head(ids), TwinA, Head(kinds).name, Head(kinds).description,
                      Head(kinds).updated_at, Head(kinds).created_at)>>)
         \o StoredNodes(Tail(ids), Tail(kinds))

EdgeEnds == { <<"n1", "n2">>, <<"n2", "n3">>, <<"n3", "n1">>, <<"n1", DanglingId>> }

EdgeIds == <<"e1", "e2", "e3", "e4">>

StoredEdges(ends) ==
    [i \in 1..Len(ends) |-> Edge(EdgeIds[i], TwinA, ends[i][1], ends[i][2])]

\* rows of another twin: a node that matches every query, an edge to it and an
\* edge between two nodes of twin A
ForeignNodes == <<Node("x1", TwinB, <<"c", "a", "t">>, <<"c", "a", "t">>, 2, 2)>>
ForeignEdges == <<Edge("ex", TwinB, "n1", "x1"), Edge("ey", TwinB, "n1", "n2")>>

Store(kinds, ends, foreign) ==
    [nodes |-> (IF foreign THEN ForeignNodes ELSE <<>>) \o StoredNodes(NodeIds, kinds),
     edges |-> (IF foreign THEN ForeignEdges ELSE <<>>) \o StoredEdges(ends)]

Queries == { <<>>, <<"a", "t">>, <<"C", "A", "T", " ", "d">> }

GraphFailures == {"seeds", "fallback", "edges", "neighbors"}

\* the store with its last node row, or its last edge row, left without id
Malformed(store, row) ==
    IF row = "node" /\ store.nodes # <<>>
    THEN [store EXCEPT !.nodes[Len(store.nodes)].has_id = FALSE]
    ELSE IF row = "edge" /\ store.edges # <<>>
    THEN [store EXCEPT !.edges[Len(store.edges)].has_id = FALSE]
    ELSE store

GraphInput(store, query, max_nodes, max_edges, fails) ==
    [called |-> FALSE, store |-> store, twin_id |-> TwinA, query |-> query,
     max_nodes |-> max_nodes, max_edges |-> max_edges, fails |-> fails,
     snapshot |-> EmptySnapshot, reads |-> <<>>, raised |-> FALSE]

GetGraphSnapshot ==
    /\ ~graph.called
    /\ graph' = [graph EXCEPT
                   !.called = TRUE,
                   !.snapshot = get_graph_snapshot(graph.store, graph.twin_id,
                                                   graph.query, graph.max_nodes,
                                                   graph.max_edges, graph.fails),
                   !.reads = graph_snapshot_call(graph.store, graph.twin_id,
                                                 graph.query, graph.max_nodes,
                                                 graph.max_edges, graph.fails).reads,
                   !.raised = graph_snapshot_call(graph.store, graph.twin_id,
                                                  graph.query, graph.max_nodes,
                                                  graph.max_edges, graph.fails).raised]
    /\ UNCHANGED <<agentVars, retrieval>>

-----------------------------------------------------------------------------
(* Specification of the chat request: agent run and stream *)

RetrievalIdle ==
    [called |-> FALSE, fails |-> "none", verified_matches |-> <<>>,
     general_matches |-> <<>>, rerank |-> NoRerank, top_k |-> 0,
     raised |-> FALSE, contexts |-> <<>>]

GraphIdle == GraphInput([nodes |-> <<>>, edges |-> <<>>], <<>>, 0, 0, "none")

\* run_agent_stream, lines 154-162, and stream_generator, lines 110-113
InitAgent(R) ==
    /\ reqs = R
    /\ pc = [r \in R |-> "AGENT"]
    /\ messages = [r \in R |-> <<HumanMessage>>]
    /\ confidence_score = [r \in R |-> InitialConfidence]
    /\ citations = [r \in R |-> <<>>]
    /\ tools_local = [r \in R |-> ToolsIdle]
    /\ event = [r \in R |-> NoEvent]
    /\ stream = [r \in R |-> StreamInit]
    /\ emitted = [r \in R |-> <<>>]
    /\ logged = [r \in R |-> NoLog]
    /\ escalations = [r \in R |-> 0]
    /\ hist = [r \in R |-> HistInit]

Init ==
    /\ InitAgent({1})
    /\ retrieval = RetrievalIdle
    /\ graph = GraphIdle

Next ==
    \/ \E r \in reqs : CallModel(r)
    \/ \E r \in reqs : CallModelFails(r)
    \/ \E r \in reqs : HandleTools(r)
    \/ \E r \in reqs : StreamOnEvent(r)
    \/ \E r \in reqs : StreamFinish(r)

Spec == Init /\ [][Next]_vars

-----------------------------------------------------------------------------
(* Specification of the agent run with no bound on its TOOLS steps. The run
   state is kept finite by forgetting what no step reads again: should_continue,
   handle_tools and the stream read the last message only, so the message list
   is cut to its last message, and the count of TOOLS steps stops growing one
   above MaxToolSteps. *)

LiveReqs == {1}

\* the answers explored: at most one tool call per assistant message, and a tool
\* output that is an error text, an empty list or a list of one scored item
LiveCallLists == {c \in CallLists : Len(c) <= 1}

LiveToolContents ==
    {c \in ToolContents :
        \/ c.fmt = "garbage"
        \/ c.fmt = "json" /\ \A i \in 1..Len(c.items) : ~c.items[i].is_verified}

\* the messages a later step can still read
Forget(msgs) == <<msgs[Len(msgs)]>>

\* the count of TOOLS steps, no longer told apart above MaxToolSteps
Saturate(h) == [h EXCEPT !.toolSteps = Min(@, MaxToolSteps + 1)]

LiveApplyUpdate(r, u) ==
    /\ messages' = [messages EXCEPT
          ![r] = IF "messages" \in u.keys THEN Forget(@ \o u.messages) ELSE @]
    /\ citations' = [citations EXCEPT
          ![r] = IF "citations" \in u.keys THEN u.citations ELSE @]
    /\ confidence_score' = [confidence_score EXCEPT
          ![r] = IF "confidence_score" \in u.keys THEN u.confidence_score ELSE @]

\* AGENT: the model call returns an assistant message, with or without tool
\* calls, however many TOOLS steps the run has made
LiveCallModel(r) ==
    /\ pc[r] = "AGENT" /\ event[r] = NoEvent /\ stream[r].at = "loop"
    /\ \E content \in Texts, calls \in LiveCallLists :
          LET u == call_model(AIMessage(content, calls))
          IN /\ LiveApplyUpdate(r, u)
             /\ event' = [event EXCEPT ![r] = UpdateEvent("agent", u)]
             /\ pc' = [pc EXCEPT ![r] = should_continue(messages'[r])]
    /\ UNCHANGED <<reqs, tools_local, stream, emitted, logged, escalations, hist,
                   retrieval, graph>>

\* the model call that returns an assistant message without tool calls
LiveCallModelNoTools(r) ==
    LiveCallModel(r) /\ messages'[r][Len(messages'[r])].tool_calls = <<>>

\* the model call that returns an assistant message with tool calls
LiveCallModelWithTools(r) ==
    LiveCallModel(r) /\ messages'[r][Len(messages'[r])].tool_calls # <<>>

\* TOOLS: every tool call returns a message
LiveHandleTools(r) ==
    /\ pc[r] = "TOOLS" /\ event[r] = NoEvent
    /\ LET calls == LastMessage(r).tool_calls
           loc == IF tools_local[r].pos = 0
                  THEN HandleToolsEntry(citations[r]) ELSE tools_local[r]
           name == calls[loc.pos + 1]
       IN \E content \in LiveToolContents :
            LET loc2 == ProcessToolMessage(loc, name, content)
                h2 == HistToolMessage(hist[r], name, content)
            IN IF loc2.pos < Len(calls)
               THEN /\ tools_local' = [tools_local EXCEPT ![r] = loc2]
                    /\ hist' = [hist EXCEPT ![r] = h2]
                    /\ UNCHANGED <<messages, citations, confidence_score, event, pc>>
               ELSE LET u == handle_tools_update(loc2,
                                 [i \in 1..Len(calls) |-> ToolMessage(calls[i])])
                    IN /\ LiveApplyUpdate(r, u)
                       /\ event' = [event EXCEPT ![r] = UpdateEvent("tools", u)]
                       /\ pc' = [pc EXCEPT ![r] = "AGENT"]
                       /\ tools_local' = [tools_local EXCEPT ![r] = ToolsIdle]
                       /\ hist' = [hist EXCEPT ![r] = Saturate(HistToolsDone(h2))]
    /\ UNCHANGED <<reqs, stream, emitted, logged, escalations, retrieval, graph>>

InitLive ==
    /\ InitAgent(LiveReqs)
    /\ retrieval = RetrievalIdle
    /\ graph = GraphIdle

NextLive ==
    \/ \E r \in LiveReqs : LiveCallModel(r)
    \/ \E r \in LiveReqs : LiveHandleTools(r)
    \/ \E r \in LiveReqs : StreamOnEvent(r)
    \/ \E r \in LiveReqs : StreamFinish(r)

\* every model call and every tool call returns, and the consumer of the stream
\* keeps reading
CallsReturn ==
    \A r \in LiveReqs :
        /\ WF_vars(LiveCallModel(r))
        /\ WF_vars(LiveHandleTools(r))
        /\ WF_vars(StreamOnEvent(r))
        /\ WF_vars(StreamFinish(r))

\* a model that is asked again and again eventually answers without tool calls
ModelEventuallyStops ==
    \A r \in LiveReqs : SF_vars(LiveCallModelNoTools(r))

\* the run under no assumption on the model's answers
SpecLoop == InitLive /\ [][NextLive]_vars /\ CallsReturn

\* the run under the assumption that the model eventually stops calling tools
SpecLive == SpecLoop /\ ModelEventuallyStops

-----------------------------------------------------------------------------
(* Specification of two chat requests served concurrently: their AGENT steps,
   TOOLS steps and stream events in every interleaving *)

TwoReqs == {1, 2}

\* the answers explored: with or without text, with or without a retrieval call
TwoTexts == {<<>>, <<"a">>}

TwoCallLists == {<<>>, <<RetrievalToolName>>}

InitTwo ==
    /\ InitAgent(TwoReqs)
    /\ retrieval = RetrievalIdle
    /\ graph = GraphIdle

NextTwo ==
    \/ \E r \in reqs : CallModelFrom(r, TwoTexts, TwoCallLists, MaxToolSteps)
    \/ \E r \in reqs : CallModelFails(r)
    \/ \E r \in reqs : HandleToolsFrom(r, LiveToolContents)
    \/ \E r \in reqs : StreamOnEvent(r)
    \/ \E r \in reqs : StreamFinish(r)

SpecTwo == InitTwo /\ [][NextTwo]_vars

-----------------------------------------------------------------------------
(* Specification of the retriever: any call of retrieve_context *)

InitRetrieval ==
    /\ InitAgent({})
    /\ \E top_k \in 0..MaxTopK :
          \/ \E fails \in RetrievalFailures \ {"none"}, vm \in MatchLists :
                retrieval = RetrievalInput(fails, vm, vm, NoRerank, top_k)
          \/ \E vm \in MatchLists, gm \in MatchLists :
                \E rerank \in RerankChoicesFor(gm, top_k) :
                   retrieval = RetrievalInput("none", vm, gm, rerank, top_k)
    /\ graph = GraphIdle

NextRetrieval == RetrieveContext

SpecRetrieval == InitRetrieval /\ [][NextRetrieval]_vars

-----------------------------------------------------------------------------
(* The specification of _select_seeds: one call on a store and a query *)

\* name and description of the stored nodes of a seed store
SeedKinds ==
    { [name |-> <<"C", "a", "t">>, description |-> <<"x">>],
      [name |-> <<"d">>, description |-> <<"c", "a", "t">>],
      [name |-> <<"d", "o", "g">>, description |-> <<"c", "A", "T">>],
      [name |-> <<"c", "o", "w">>, description |-> <<>>] }

\* a kind no query term is found in
FillerKind == [name |-> <<"x">>, description |-> <<>>]

SeedQueries ==
    { <<>>,
      <<"a", "t", " ", "d">>,
      <<"C", "A", "T">>,
      <<"c", "a", "t", " ", "a", "t", " ", "D", "o", "g">>,
      <<"c", "a", "t", " ", "d", "o", "g", " ", "c", "a", "t", " ", "c", "o", "w">> }

\* the kinds of the rows of a store: three runs of one kind each
RunsOfKinds(kinds, runs) ==
    [i \in 1..runs[1] |-> kinds[1]] \o [i \in 1..runs[2] |-> kinds[2]]
    \o [i \in 1..runs[3] |-> kinds[3]]

\* the store whose rows have these kinds; the id of a row is its position
SeedStore(rowKinds) ==
    [nodes |-> [i \in 1..Len(rowKinds) |->
                   Node(i, TwinA, rowKinds[i].name, rowKinds[i].description, 1, 1)],
     edges |-> <<>>]

\* rows that fill the candidate fetch up to two runs of free places
Filler == [i \in 1..(SeedFetchLimit - 2 * MaxRun) |-> FillerKind]

SeedsInput(store, query, fails) ==
    [called |-> FALSE, store |-> store, twin_id |-> TwinA, query |-> query,
     fails |-> fails, seeds |-> <<>>]

SelectSeeds ==
    /\ ~graph.called
    /\ graph' = [graph EXCEPT
                   !.called = TRUE,
                   !.seeds = _select_seeds(graph.store, graph.twin_id,
                                           graph.query, graph.fails)]
    /\ UNCHANGED <<agentVars, retrieval>>

InitSeeds ==
    /\ InitAgent({})
    /\ retrieval = RetrievalIdle
    /\ \E kinds \in [1..3 -> SeedKinds], runs \in [1..3 -> 0..MaxRun],
          query \in SeedQueries, padded \in BOOLEAN, fails \in {"none", "seeds"} :
          /\ kinds[1] # kinds[2] /\ kinds[2] # kinds[3]
          /\ fails = "seeds" => ~padded
          /\ graph = SeedsInput(SeedStore((IF padded THEN Filler ELSE <<>>)
                                          \o RunsOfKinds(kinds, runs)),
                                query, fails)

NextSeeds == SelectSeeds

SpecSeeds == InitSeeds /\ [][NextSeeds]_vars

-----------------------------------------------------------------------------
(* The specification of the expansion: one call of get_graph_snapshot on a star
   of nodes around a seed *)

\* The kinds of the nodes of a star, seeds first: nodes the query matches and
\* nodes it does not match, with name and description, or with one of them only
HopKinds ==
    { <<[name |-> <<"c", "a", "t">>, description |-> <<"x">>],
        [name |-> <<"d">>, description |-> <<"x">>]>>,
      <<[name |-> <<"c", "a", "t">>, description |-> <<>>],
        [name |-> <<>>, description |-> <<"x">>]>>,
      <<[name |-> <<>>, description |-> <<"c", "a", "t">>],
        [name |-> <<"d">>, description |-> <<>>]>> }

HopQuery == <<"c", "a", "t">>

HopNode(id, kind) == Node(id, TwinA, kind.name, kind.description, 1, 1)

\* One to three seeds s1..; neighbors m1..mK of s1; behind each neighbor mj with
\* j in far a node fj; behind f1 a node g1 when deep. The edge of a neighbor
\* points to the seed or from it; the neighbors are stored in rising or
\* falling order.
HopStore(kinds, S, K, far, deep, toSeed, falling) ==
    LET HopSeedKind == kinds[1]
        HopOtherKind == kinds[2]
        rising == [i \in 1..K |-> i]
        order == IF falling THEN [i \in 1..K |-> K + 1 - i] ELSE rising
        farSeq == SelectSeq(rising, LAMBDA j : j \in far)
        hasDeep == deep /\ 1 \in far
    IN [nodes |->
            [i \in 1..K |-> HopNode(<<"m", order[i]>>, HopOtherKind)]
            \o [i \in 1..Len(farSeq) |-> HopNode(<<"f", farSeq[i]>>, HopOtherKind)]
            \o (IF hasDeep THEN <<HopNode(<<"g", 1>>, HopOtherKind)>> ELSE <<>>)
            \o [i \in 1..S |-> HopNode(<<"s", i>>, HopSeedKind)],
        edges |->
            [i \in 1..K |->
                IF toSeed THEN Edge(<<"e", i>>, TwinA, <<"m", i>>, <<"s", 1>>)
                ELSE Edge(<<"e", i>>, TwinA, <<"s", 1>>, <<"m", i>>)]
            \o [i \in 1..Len(farSeq) |->
                   Edge(<<"h", farSeq[i]>>, TwinA, <<"m", farSeq[i]>>, <<"f", farSeq[i]>>)]
            \o (IF hasDeep
                THEN <<Edge(<<"d", 1>>, TwinA, <<"f", 1>>, <<"g", 1>>)>> ELSE <<>>)]

\* the caps of a call: up to every node of the largest star
HopCaps == 0..(2 * MaxNeighbors + 4)

InitHops ==
    /\ InitAgent({})
    /\ retrieval = RetrievalIdle
    /\ \E kinds \in HopKinds, S \in 1..3, K \in 0..MaxNeighbors, deep \in BOOLEAN,
          toSeed \in BOOLEAN, falling \in BOOLEAN, max_nodes \in HopCaps :
          \E far \in SUBSET (1..K) :
             graph = GraphInput(HopStore(kinds, S, K, far, deep, toSeed, falling),
                                HopQuery, max_nodes, MAX_EDGES, "none")

NextHops == GetGraphSnapshot

SpecHops == InitHops /\ [][NextHops]_vars

-----------------------------------------------------------------------------
(* The specification of get_graph_snapshot: one call on a store, a query and
   two caps *)

InitGraph ==
    /\ InitAgent({})
    /\ retrieval = RetrievalIdle
    /\ \E kinds \in [1..Len(NodeIds) -> NodeKinds \cup {Absent}],
          ends \in SeqUpTo(EdgeEnds, MaxStoreEdges),
          query \in Queries,
          foreign \in BOOLEAN :
          \/ \E max_nodes \in 0..MaxCapNodes, max_edges \in 0..MaxCapEdges :
                graph = GraphInput(Store(kinds, ends, foreign), query,
                                   max_nodes, max_edges, "none")
          \/ \E fails \in GraphFailures :
                /\ foreign
                /\ graph = GraphInput(Store(kinds, ends, foreign), query,
                                      MaxCapNodes, MaxCapEdges, fails)
          \/ \E row \in {"node", "edge"}, fails \in {"none", "seeds"} :
                /\ ~foreign
                /\ graph = GraphInput(Malformed(Store(kinds, ends, foreign), row),
                                      query, MaxCapNodes, MaxCapEdges, fails)

NextGraph == GetGraphSnapshot

SpecGraph == InitGraph /\ [][NextGraph]_vars

-----------------------------------------------------------------------------
(* Properties of the agent run and of the chat stream *)

LastEmitted(r) == emitted[r][Len(emitted[r])]

C4_NoToolRunIsNotEscalated ==
    \A r \in reqs :
        stream[r].at = "done" /\ hist[r].toolSteps = 0 =>
            /\ \A i \in 1..Len(emitted[r]) :
                  emitted[r][i].type = "metadata" =>
                      emitted[r][i].confidence_score = ConfOne
            /\ escalations[r] = 0
            /\ ~LastEmitted(r).escalated

\* C5: while no TOOLS step has executed, the confidence_score of the agent
\* state is its initial value 1.0, in every state of the run up to and
\* including TERMINAL: AGENT steps never change it.
C5_ConfidenceStaysInitialWithoutTools ==
    \A r \in reqs :
        hist[r].toolSteps = 0 => confidence_score[r] = ConfOne

\* a run has reached TERMINAL after an AGENT step and without any TOOLS step
C5_Witness ==
    \E r \in reqs :
        /\ pc[r] = "TERMINAL" /\ hist[r].toolSteps = 0
        /\ messages[r][Len(messages[r])].role = "ai"

\* C6: a finished chat stream has emitted exactly one metadata event first,
\* then zero or more content events, then exactly one done event last.
C6_MetadataThenContentThenDone ==
    \A r \in reqs :
        stream[r].at = "done" =>
            LET e == emitted[r] IN
            /\ Len(e) >= 2
            /\ e[1].type = "metadata"
            /\ e[Len(e)].type = "done"
            /\ \A i \in 2..(Len(e) - 1) : e[i].type = "content"

\* C7: at the end of a chat stream an escalation exists, and done.escalated is
\* true, if and only if the confidence the run ended with is strictly below
\* 0.7; at most one escalation is created per answer.
C7_EscalatedIffRunConfidenceBelowThreshold ==
    \A r \in reqs :
        stream[r].at = "done" =>
            /\ escalations[r] <= 1
            /\ escalations[r] = 1 <=> RatLess(confidence_score[r], EscalationThreshold)
            /\ LastEmitted(r).escalated
                  <=> RatLess(confidence_score[r], EscalationThreshold)

\* C10: after a TOOLS step in which no item parsed from a retrieval result
\* carries a score, confidence_score is 0.0 and the graph is back at AGENT.
C10_NothingScoredGivesZero ==
    \A r \in reqs :
        /\ event[r].node = "tools" => pc[r] = "AGENT"
        /\ hist[r].toolSteps > 0 /\ ~hist[r].lastScored =>
              confidence_score[r] = ConfZero
        /\ event[r].node = "tools" /\ ~hist[r].lastScored =>
              event[r].update.confidence_score = ConfZero

\* a TOOLS step that was given a retrieval result, none of whose items carries
\* a score, has just returned
C10_Witness ==
    \E r \in reqs :
        /\ event[r].node = "tools" /\ ~hist[r].lastScored
        /\ messages[r][Len(messages[r])].name = RetrievalToolName

\* C11: after any sequence of TOOLS steps of a run, the citations of the state
\* hold every source_id carried by an item of a retrieval result seen so far in
\* the run, each exactly once, and nothing else.
C11_CitationsAreTheSeenSourceIds ==
    \A r \in reqs :
        pc[r] \in {"AGENT", "TERMINAL"} =>
            /\ Range(citations[r]) = hist[r].seen
            /\ Len(citations[r]) = Cardinality(hist[r].seen)

\* two TOOLS steps have returned; they were given two different source ids,
\* and the last step was given a source id a second time
C11_Witness ==
    \E r \in reqs :
        /\ pc[r] = "AGENT" /\ hist[r].toolSteps = MaxToolSteps
        /\ Cardinality(hist[r].seen) = 2
        /\ hist[r].overlap

\* the confidence a TOOLS step writes when its one retrieval result parses to
\* the empty list
GenuineZero ==
    NewConfidence(ProcessToolMessage(HandleToolsEntry(<<>>), RetrievalToolName,
                                     [fmt |-> "json", items |-> <<>>]))

\* C16: a TOOLS step whose retrieval output could not be parsed, and in which
\* nothing was scored, leaves a confidence_score other than the one a step
\* leaves that parsed its result and found no item to score.
C16_FailureToScoreIsNotAZeroScore ==
    \A r \in reqs :
        /\ hist[r].toolSteps > 0
        /\ hist[r].lastUnparsed /\ ~hist[r].lastScored
        => confidence_score[r] # GenuineZero

\* C22: the confidence a TOOLS step writes is 1.0 if any item parsed from a
\* retrieval result of that step has is_verified true, otherwise the mean of
\* the item scores of that step, otherwise (no item scored) 0.0.
C22_StepConfidenceFollowsItems ==
    \A r \in reqs :
        hist[r].toolSteps > 0 =>
            confidence_score[r] = IF hist[r].lastVerifiedItem THEN ConfOne
                                  ELSE hist[r].lastMean

\* C23: the score sum and count of a TOOLS step hold the scores of that step
\* alone, and once a TOOLS step has returned, up to and including TERMINAL, the
\* confidence_score of the state is the value handle_tools computes from the
\* tool messages of the last step alone, whatever earlier steps had written.
C23_LastToolsStepReplacesConfidence ==
    \A r \in reqs :
        /\ tools_local[r].pos > 0 =>
              /\ tools_local[r].total_score = hist[r].own.total_score
              /\ tools_local[r].score_count = hist[r].own.score_count
        /\ hist[r].toolSteps > 0 => confidence_score[r] = hist[r].lastOwn

\* a run of two TOOLS steps has ended; the second step computed a value other
\* than the first one's
C23_Witness ==
    \E r \in reqs :
        /\ pc[r] = "TERMINAL" /\ hist[r].toolSteps = MaxToolSteps
        /\ hist[r].replaced

\* what one step of the model may do to the position of run r: nothing, or
\* one of the three edges of the graph (a model call that raises ends the run
\* without taking an edge: position FAILED)
GraphEdge(r) ==
    LET last == messages'[r][Len(messages'[r])] IN
    \/ pc'[r] = pc[r] /\ messages'[r] = messages[r]
    \/ /\ pc[r] = "AGENT" /\ pc'[r] = "TOOLS"
       /\ Len(messages'[r]) = Len(messages[r]) + 1
       /\ last.role = "ai" /\ last.tool_calls # <<>>
    \/ /\ pc[r] = "AGENT" /\ pc'[r] = "TERMINAL"
       /\ Len(messages'[r]) = Len(messages[r]) + 1
       /\ last.role = "ai" /\ last.tool_calls = <<>>
    \/ /\ pc[r] = "TOOLS" /\ pc'[r] = "AGENT"
       /\ Len(messages'[r]) > Len(messages[r])
       /\ last.role = "tool"
    \/ /\ pc[r] = "AGENT" /\ pc'[r] = "FAILED"
       /\ messages'[r] = messages[r]

\* C20: the agent run starts at AGENT; an AGENT step goes to TOOLS exactly when
\* the assistant message it produced carries tool calls and to TERMINAL exactly
\* when it carries none; a TOOLS step always goes to AGENT; TERMINAL has no
\* successor, and no other transition exists.
C20_AgentToolsAlternation ==
    /\ \A r \in reqs : pc[r] = "AGENT"
    /\ [][\A r \in reqs : GraphEdge(r)]_vars

\* a run went through AGENT, TOOLS, AGENT, TOOLS, AGENT and ended
C20_Witness ==
    \E r \in reqs :
        /\ pc[r] = "TERMINAL" /\ hist[r].toolSteps = MaxToolSteps
        /\ Len(messages[r]) >= 2 * MaxToolSteps + 2

\* the run is at AGENT and the model is about to be called
AtModelCall(r) ==
    pc[r] = "AGENT" /\ event[r] = NoEvent /\ stream[r].at = "loop"

\* C21: when every model call and tool call returns and the model eventually
\* answers without tool calls, every run eventually reaches TERMINAL; and the
\* graph itself never closes the way back to TOOLS: at every model call, after
\* any number of TOOLS steps, an answer with tool calls starts another one.
C21_RunEventuallyTerminates ==
    /\ \A r \in LiveReqs : <>(pc[r] = "TERMINAL")
    /\ [](\A r \in LiveReqs : AtModelCall(r) => ENABLED LiveCallModelWithTools(r))

\* a run has ended after more TOOLS steps than MaxToolSteps
C21_Witness ==
    \E r \in reqs : pc[r] = "TERMINAL" /\ hist[r].toolSteps > MaxToolSteps

RECURSIVE ContentSent(_)
\* the content deltas of a sequence of emitted events, concatenated in order
ContentSent(events) ==
    IF events = <<>> THEN <<>>
    ELSE (IF Head(events).type = "content" THEN Head(events).content ELSE <<>>)
         \o ContentSent(Tail(events))

\* C28: for every run, the content deltas the stream has emitted, concatenated
\* in emission order, are the text of the last assistant message of the run,
\* and that concatenation is what is logged as the assistant's answer.
C28_ContentIsLastAssistantText ==
    \A r \in reqs :
        stream[r].at = "done" =>
            /\ ContentSent(emitted[r]) = LastMessage(r).content
            /\ logged[r].content = ContentSent(emitted[r])

\* the metadata event of a stream
MetadataOf(r) ==
    emitted[r][CHOOSE i \in 1..Len(emitted[r]) : emitted[r][i].type = "metadata"]

\* C29: within one chat stream, the confidence score and the citations of the
\* metadata event are the ones logged with the assistant message and the ones
\* the escalation decision is taken on.
C29_MetadataMatchesLoggedValues ==
    \A r \in reqs :
        stream[r].at = "done" =>
            /\ MetadataOf(r).confidence_score = logged[r].confidence_score
            /\ MetadataOf(r).citations = logged[r].citations
            /\ LastEmitted(r).escalated
                  <=> ShouldEscalate(MetadataOf(r).confidence_score)

\* everything a chat request owns: its run state, its stream and what it logged
ReqState(r) ==
    <<pc[r], messages[r], confidence_score[r], citations[r], tools_local[r],
      event[r], stream[r], emitted[r], logged[r], escalations[r], hist[r]>>

\* the citations and the confidence of request r are those its own tool
\* messages give
OwnResults(r) ==
    /\ pc[r] # "TOOLS" =>
          /\ Range(citations[r]) = hist[r].seen
          /\ Len(citations[r]) = Cardinality(hist[r].seen)
    /\ confidence_score[r] = IF hist[r].toolSteps = 0 THEN InitialConfidence
                             ELSE hist[r].lastOwn
    /\ Len(messages[r]) <= 1 + 2 * hist[r].toolSteps + 2
    /\ logged[r].written =>
          /\ Range(logged[r].citations) \subseteq hist[r].seen
          /\ logged[r].content = stream[r].final_content

\* C27: for two chat requests served concurrently, in every interleaving of
\* their steps, a step changes the state of one request only, and the
\* citations, confidence and logged answer of each request are those its own
\* run gives.
C27_RequestsDoNotInterfere ==
    /\ [](\A r \in TwoReqs : OwnResults(r))
    /\ [][\A r \in TwoReqs, q \in TwoReqs :
            r # q /\ ReqState(r)' # ReqState(r) => ReqState(q)' = ReqState(q)]_vars

\* two requests have made a TOOLS step each, with other tool outputs: one has
\* ended with a citation and a confidence the other, still running, has not
C27_Witness ==
    \E r \in reqs, q \in reqs :
        /\ r # q
        /\ stream[r].at = "done" /\ pc[q] = "AGENT"
        /\ hist[r].toolSteps > 0 /\ hist[q].toolSteps > 0
        /\ citations[r] # <<>> /\ citations[q] = <<>>
        /\ confidence_score[r] # confidence_score[q]

-----------------------------------------------------------------------------
(* Properties of retrieve_context *)

\* the verified matches above the threshold, in store order
PassingVerified == FilterMatches(retrieval.verified_matches, VerifiedThreshold)

C9_RerankFailureKeepsVectorResults ==
    /\ retrieval.called /\ retrieval.fails = "none"
    /\ RerankFailed(RawGeneralChunks(retrieval.general_matches), retrieval.rerank)
    => /\ ~retrieval.raised
       /\ retrieval.contexts =
             TakeFirst(VerifiedContexts(retrieval.verified_matches)
                       \o TakeFirst(RawGeneralChunks(retrieval.general_matches),
                                    retrieval.top_k),
                       retrieval.top_k)

-----------------------------------------------------------------------------
(* Properties of get_graph_snapshot *)

\* the seeds of the call
GraphSeeds == _select_seeds(graph.store, graph.twin_id, graph.query, graph.fails)

\* the stored edge a Snapshot edge stands for
StoredEdge(id) == CHOOSE e \in Range(graph.store.edges) : e.id = id

SnapshotNodeIds == Range(Ids(graph.snapshot.nodes))

\* C1: the Snapshot returned by get_graph_snapshot has node_count <= max_nodes
\* and edge_count <= max_edges, on the seeded path and on the fallback path,
\* and the counts are the lengths of its node and edge sequences.
C1_SnapshotWithinCaps ==
    graph.called =>
        /\ graph.snapshot.node_count <= graph.max_nodes
        /\ graph.snapshot.edge_count <= graph.max_edges
        /\ Len(graph.snapshot.nodes) = graph.snapshot.node_count
        /\ Len(graph.snapshot.edges) = graph.snapshot.edge_count

\* a call on the seeded path selected more seeds than max_nodes and found more
\* edges than max_edges, and returned a Snapshot that fills both caps
C1_Witness ==
    /\ graph.called /\ graph.fails = "none"
    /\ Len(GraphSeeds) > graph.max_nodes
    /\ graph.snapshot.node_count = graph.max_nodes
    /\ graph.snapshot.edge_count = graph.max_edges
    /\ graph.max_edges > 0
    /\ Len(graph.store.edges) > graph.max_edges

\* C2: each edge of the Snapshot returned by get_graph_snapshot has both its
\* from-node and its to-node among the nodes of that Snapshot, for every
\* max_nodes and for stores that hold dangling edges.
C2_SnapshotEdgesAreClosed ==
    graph.called =>
        \A i \in 1..Len(graph.snapshot.edges) :
            LET e == StoredEdge(graph.snapshot.edges[i].id)
            IN /\ e.from_node_id \in SnapshotNodeIds
               /\ e.to_node_id \in SnapshotNodeIds

\* the rows of the twin, in the order of the store
TwinRows == SelectSeq(graph.store.nodes, LAMBDA n : n.twin_id = graph.twin_id)

\* the nodes of the Snapshot are the first max_nodes rows of the twin
FallbackNodesReturned ==
    /\ Ids(graph.snapshot.nodes) = Ids(TakeFirst(TwinRows, graph.max_nodes))
    /\ graph.snapshot.node_count = Min(Len(TwinRows), graph.max_nodes)

\* C13: when the seed set is empty, get_graph_snapshot issues no edge read and
\* no neighbor read and returns no edge; when the fallback fetch succeeds and
\* its rows all carry an id, the Snapshot is made of the nodes the store returns
\* for limit max_nodes, in the order of the store.
C13_EmptySeedsFallBackToStoreNodes ==
    graph.called /\ GraphSeeds = <<>> =>
        /\ \A i \in 1..Len(graph.reads) : graph.reads[i].what = "get_nodes_system"
        /\ graph.snapshot.edges = <<>>
        /\ graph.snapshot.edge_count = 0
        /\ graph.fails # "fallback" /\ (\A n \in Range(TwinRows) : n.has_id) =>
              FallbackNodesReturned

\* a call with a query that has a keyword no node matches, on a store with more
\* rows of the twin than max_nodes and with an edge, returned max_nodes nodes
C13_Witness ==
    /\ graph.called /\ graph.fails = "none"
    /\ GraphSeeds = <<>>
    /\ Len(graph.reads) = 2
    /\ graph.store.edges # <<>>
    /\ Len(TwinRows) > graph.max_nodes
    /\ graph.snapshot.node_count = graph.max_nodes
    /\ graph.max_nodes > 1

\* C14: get_graph_snapshot never raises: whatever store reads fail and whatever
\* rows lack an id, it returns a Snapshot whose node_count is the number of its
\* nodes and whose edge_count is the number of its edges.
C14_SnapshotIsAlwaysReturned ==
    graph.called =>
        /\ ~graph.raised
        /\ graph.snapshot.node_count = Len(graph.snapshot.nodes)
        /\ graph.snapshot.edge_count = Len(graph.snapshot.edges)

\* a call met a row without id where it reads the id, and returned the Snapshot
\* of the except branch
C14_Witness ==
    /\ graph.called /\ ~graph.raised
    /\ graph.snapshot.error
    /\ \E i \in 1..Len(graph.store.edges) : ~graph.store.edges[i].has_id

\* the read that graph.fails makes fail was issued by the call
FailedReadIssued ==
    \/ graph.fails = "seeds" /\ SeedReads(graph.twin_id, graph.query) # <<>>
    \/ graph.fails = "fallback" /\ GraphSeeds = <<>>
    \/ graph.fails = "edges"
          /\ \E i \in 1..Len(graph.reads) : graph.reads[i].what = "edges"
    \/ graph.fails = "neighbors"
          /\ \E i \in 1..Len(graph.reads) : graph.reads[i].what = "nodes"

\* C15: whenever a store read of get_graph_snapshot fails (the seed fetch, the
\* fallback fetch, the edge fetch or the neighbor fetch of a hop), the Snapshot
\* returned is the empty Snapshot: no nodes, no edges, empty context_text.
C15_FailedReadGivesEmptySnapshot ==
    graph.called /\ FailedReadIssued =>
        /\ graph.snapshot.nodes = <<>>
        /\ graph.snapshot.edges = <<>>
        /\ graph.snapshot.context_text = <<>>

\* the store without the rows of other twins than the twin of the call
OwnStore ==
    [nodes |-> SelectSeq(graph.store.nodes, LAMBDA n : n.twin_id = graph.twin_id),
     edges |-> SelectSeq(graph.store.edges, LAMBDA e : e.twin_id = graph.twin_id)]

\* C19: every store read issued for the Snapshot of twin T is filtered by T,
\* and the Snapshot returned is the one returned on the store that agrees on
\* T's nodes and edges and holds no data of other twins.
C19_SnapshotIgnoresOtherTwins ==
    graph.called =>
        /\ \A i \in 1..Len(graph.reads) : graph.reads[i].twin_id = graph.twin_id
        /\ graph.snapshot = get_graph_snapshot(OwnStore, graph.twin_id, graph.query,
                                               graph.max_nodes, graph.max_edges,
                                               graph.fails)

\* a call on a store that holds a node and edges of another twin returned a
\* Snapshot with two nodes of its twin and an edge between them
C19_Witness ==
    /\ graph.called /\ graph.fails = "none"
    /\ OwnStore # graph.store
    /\ graph.snapshot.node_count >= 2
    /\ graph.snapshot.edge_count >= 1
    /\ \E i \in 1..Len(graph.snapshot.nodes) : graph.snapshot.nodes[i].id = "n1"
    /\ \E i \in 1..Len(graph.snapshot.nodes) : graph.snapshot.nodes[i].id = "n2"

\* the stored row of a node of the Snapshot
StoredNode(id) ==
    CHOOSE n \in Range(graph.store.nodes) : n.id = id /\ n.twin_id = graph.twin_id

\* the time a node is ranked by: updated_at, created_at when that is absent
RankTime(n) == IF n.updated_at # 0 THEN n.updated_at ELSE n.created_at

\* the call took the seeded path and returned its Snapshot
SeededSnapshot ==
    graph.called /\ GraphSeeds # <<>> /\ ~graph.snapshot.error

\* C24: in a Snapshot built on the seeded path all seed nodes come before all
\* non-seed nodes, and within the seeds and within the non-seeds the nodes are
\* in descending order of updated_at (created_at when updated_at is absent).
C24_SeedsFirstThenMostRecent ==
    SeededSnapshot =>
        LET ids == Ids(graph.snapshot.nodes)
            seeds == Range(Ids(GraphSeeds))
        IN \A i \in 1..Len(ids), j \in 1..Len(ids) :
              i < j =>
                 /\ ids[j] \in seeds => ids[i] \in seeds
                 /\ (ids[i] \in seeds <=> ids[j] \in seeds) =>
                       RankTime(StoredNode(ids[i])) >= RankTime(StoredNode(ids[j]))

\* the stored edges of the twin join a and b
Adjacent(a, b) ==
    \E e \in Range(graph.store.edges) :
        /\ e.twin_id = graph.twin_id
        /\ \/ e.from_node_id = a /\ e.to_node_id = b
           \/ e.from_node_id = b /\ e.to_node_id = a

\* the stored nodes of the twin that are no seed and are adjacent to a seed
FirstHop(seeds) ==
    {n.id : n \in {x \in Range(TwinRows) :
                     /\ x.id \notin seeds
                     /\ \E s \in seeds : Adjacent(s, x.id)}}

\* the nodes of the Snapshot that are neither a seed nor adjacent to a seed
BeyondFirstHop(seeds, first) ==
    {n \in SnapshotNodeIds : n \notin seeds /\ n \notin first}

\* C25: on the seeded path every non-seed node of the Snapshot is adjacent to a
\* seed or adjacent to a first-hop neighbor; nodes of the second kind appear
\* only when fewer than 3 seeds were selected and seeds and first-hop neighbors
\* together are fewer than max_nodes, and then all of them are adjacent to one
\* of at most 3 first-hop neighbors.
C25_NonSeedsWithinTwoHops ==
    graph.called =>
        LET seeds == Range(Ids(GraphSeeds))
            first == FirstHop(seeds)
            beyond == BeyondFirstHop(seeds, first)
        IN seeds # {} /\ ~graph.snapshot.error =>
           /\ beyond # {} =>
                 /\ Cardinality(seeds) < 3
                 /\ Cardinality(seeds) + Cardinality(first) < graph.max_nodes
           /\ \E M \in SUBSET first :
                 /\ Cardinality(M) <= 3
                 /\ \A n \in beyond : \E m \in M : Adjacent(m, n)

\* a seed with more than 3 first-hop neighbors: the Snapshot holds a node of
\* the second hop and, with room left under max_nodes, lacks a stored node
\* that is adjacent to a first-hop neighbor
C25_Witness ==
    /\ graph.called /\ ~graph.snapshot.error
    /\ graph.snapshot.node_count < graph.max_nodes
    /\ LET seeds == Range(Ids(GraphSeeds))
           first == FirstHop(seeds)
       IN /\ seeds # {}
          /\ Cardinality(first) > 3
          /\ BeyondFirstHop(seeds, first) # {}
          /\ \E n \in Range(Ids(TwinRows)) :
                /\ n \notin SnapshotNodeIds
                /\ \E m \in first : Adjacent(m, n)

\* C26: the context_text of a Snapshot is non-empty if and only if one of its
\* nodes has both a non-empty name and a non-empty description; node_count and
\* edge_count count every node and every edge of the Snapshot, rendered or not.
C26_TextIffSomeNodeIsRenderable ==
    graph.called =>
        LET nodes == graph.snapshot.nodes IN
        /\ graph.snapshot.context_text # <<>>
              <=> \E i \in 1..Len(nodes) :
                     /\ StoredNode(nodes[i].id).name # <<>>
                     /\ StoredNode(nodes[i].id).description # <<>>
        /\ graph.snapshot.node_count = Len(nodes)
        /\ graph.snapshot.edge_count = Len(graph.snapshot.edges)

\* a Snapshot with nodes and edges, none of whose nodes has both a name and a
\* description, some with a name only and some with a description only
C26_Witness ==
    /\ graph.called
    /\ graph.snapshot.node_count > 1 /\ graph.snapshot.edge_count > 0
    /\ graph.snapshot.context_text = <<>>
    /\ \E i \in 1..Len(graph.snapshot.nodes) :
          StoredNode(graph.snapshot.nodes[i].id).name # <<>>
    /\ \E i \in 1..Len(graph.snapshot.nodes) :
          StoredNode(graph.snapshot.nodes[i].id).description # <<>>

\* C30: no edge appears more than once in the edge sequence of a Snapshot.
C30_SnapshotEdgesAreDistinct ==
    graph.called =>
        \A i \in 1..Len(graph.snapshot.edges), j \in 1..Len(graph.snapshot.edges) :
            i # j => graph.snapshot.edges[i].id # graph.snapshot.edges[j].id

-----------------------------------------------------------------------------
(* Properties of _select_seeds *)

\* the first three words of the query that are longer than two characters
QueryTerms == TakeFirst(SelectSeq(Split(graph.query), LAMBDA w : Len(w) > 2), 3)

\* 3 for each term found in the name, 1 for each found in the description,
\* both without regard to case
TermScore(terms, node) ==
    3 * Cardinality({i \in 1..Len(terms) :
                        IsSubstring(LowerStr(terms[i]), LowerStr(node.name))})
    + Cardinality({i \in 1..Len(terms) :
                      IsSubstring(LowerStr(terms[i]), LowerStr(node.description))})

\* the rows the candidate fetch returns
SeedCandidates == get_nodes_system(graph.store, graph.twin_id, SeedFetchLimit)

-----------------------------------------------------------------------------
(* Further properties of retrieve_context *)

C18_RetrievalFailurePropagates ==
    retrieval.called /\ retrieval.fails # "none" =>
        retrieval.raised /\ retrieval.contexts = <<>>

\* a call was made in which a vector-store query failed although the store
\* held matches
C18_Witness ==
    /\ retrieval.called
    /\ retrieval.fails = "general_query"
    /\ PassingVerified # <<>>
    /\ retrieval.top_k > 0
    /\ retrieval.raised

====
